---- MODULE Spec2Model ----
(***************************************************************************)
(* Model of the intake backend (src/server.js): the sliding-window rate    *)
(* limiter middleware and the credential lifecycle handlers                *)
(* (create-intake-credentials, validate-intake-credentials, save-report).  *)
(*                                                                         *)
(* Node runs every callback to completion on one thread, so each action    *)
(* below is one synchronous stretch of a handler: from the arrival of the  *)
(* request (or the resumption after an await) to the next await or to the  *)
(* response.  Requests in flight occupy a slot of reqs; their local        *)
(* variables (caseId, loginDoc, now, recentRequests.length, ...) are the   *)
(* fields of the slot.                                                     *)
(***************************************************************************)
EXTENDS Integers, Sequences, FiniteSets, TLC

\* ---------------------------------------------------------------- bounds
\* Time is counted in units of a scaled window: the code's window is
\* 60 * 1000 ms and its capacity 20 (15 in the older server file); the
\* limiter's logic depends on neither value, only on their comparison with
\* the clock and the list length.
RATE_LIMIT_WINDOW_MS == 2

MAX_REQUESTS_PER_WINDOW == 2

\* Last instant of the clock Date.now().
MaxTime == 3

\* Caller identities (req.ip).
IPs == {"ipA", "ipB"}

\* Requests the server handles concurrently.
Slots == {1, 2}

\* Documents the case_reports collection can hold.
MaxReports == 2

\* Case identifiers `CI-${datePart}-${randomPart}` the generator can draw;
\* two draws can give the same identifier.
CaseIds == {"CI-A", "CI-B"}

\* Passcodes crypto.randomBytes(4) can render.
Passcodes == {1, 2}

\* Salts bcrypt can draw for a hash.
Salts == {1}

\* A body field that is absent (or empty: `!field` is true of both).
NoCase == ""

NoPasscode == 0

\* Bodies sent to /api/save-report, as the sets of the fields they carry.
ReportFields == {"clientName", "clientEmail", "clientPhone", "reportContent"}

Bodies ==
  {ReportFields} \cup {ReportFields \ {f} : f \in ReportFields}

\* ------------------------------------------------------------- state
\* now             Date.now() / the store's server time
\* rateLimitStore  the limiter's Map: identity -> timestamps
\* logins          the intake_logins collection: caseId -> document
\* reports         the case_reports collection
\* reqs            the requests in flight, one per slot
\* admitLog        observer: the admissions of each identity, by time
\* usedEver        observer: a finalize has set this caseId's status to used
VARIABLES now, rateLimitStore, logins, reports, reqs, admitLog, usedEver

vars == <<now, rateLimitStore, logins, reports, reqs, admitLog, usedEver>>

limiterVars == <<rateLimitStore, admitLog>>

credVars == <<logins, reports, usedEver>>

NoHash == [salt |-> 0, digest |-> 0]

\* What intake_logins holds under a key that was never written.
NoDoc == [exists |-> FALSE, hashedPasscode |-> NoHash, status |-> "-", createdAt |-> -1]

\* A slot with no request in it.
Idle ==
  [kind |-> "idle", pc |-> "idle", ip |-> "-", input |-> FALSE,
   at |-> -1, seen |-> -1, resp |-> 0,
   caseId |-> NoCase, passcode |-> NoPasscode, hashed |-> NoHash,
   body |-> {}, loginDoc |-> NoDoc, docId |-> 0, afterUsed |-> FALSE]

\* ------------------------------------------------------- rate limiter
\* userRequests.filter(timestamp => now - timestamp < RATE_LIMIT_WINDOW_MS)
recentRequests_strict(userRequests, t) ==
  SelectSeq(userRequests, LAMBDA timestamp : t - timestamp <= RATE_LIMIT_WINDOW_MS)

recentRequests_keepall(userRequests, t) == userRequests

recentRequests(userRequests, t) ==
  SelectSeq(userRequests, LAMBDA timestamp : t - timestamp < RATE_LIMIT_WINDOW_MS)

\* recentRequests.length >= MAX_REQUESTS_PER_WINDOW
saturated_offbyone(recent) == Len(recent) > MAX_REQUESTS_PER_WINDOW

saturated(recent) == Len(recent) >= MAX_REQUESTS_PER_WINDOW

\* recentRequests.push(now); rateLimitStore.set(ip, recentRequests)
recorded_stale(store, ip, recent, t) == [store EXCEPT ![ip] = recent]

recorded_shared(store, ip, recent, t) ==
  [j \in DOMAIN store |-> IF j = ip THEN Append(recent, t) ELSE Append(store[j], t)]

recorded_unpruned(store, ip, recent, t) == [store EXCEPT ![ip] = Append(@, t)]

recorded(store, ip, recent, t) == [store EXCEPT ![ip] = Append(recent, t)]

\* The admitted requests of one identity that lie in the window trailing the
\* instant t, counted on the observer's log and not on the limiter's store.
InWindow(log, t) ==
  SelectSeq(log, LAMBDA a : a <= t /\ t - a < RATE_LIMIT_WINDOW_MS)

\* Date.now() advances.  The observer forgets admissions that no window
\* ending at or after the new instant can contain.
Tick ==
  /\ now < MaxTime
  /\ \E t \in (now + 1)..MaxTime :
       /\ now' = t
       /\ admitLog' = [i \in IPs |-> InWindow(admitLog[i], t)]
  /\ UNCHANGED <<rateLimitStore, reqs, credVars>>

\* A request for a route registered with the rateLimiter middleware
\* (/api/gemini, /api/format-report: the same shape, kind "limited") has been
\* received and its body parsed; its middleware chain has not run yet.
\* input: the body carries the field the handler requires.
Arrive(s) ==
  /\ reqs[s].kind = "idle"
  /\ \E ip \in IPs, input \in BOOLEAN :
       reqs' = [reqs EXCEPT ![s] =
                  [Idle EXCEPT !.kind = "limited", !.pc = "limiter",
                               !.ip = ip, !.input = input]]
  /\ UNCHANGED <<now, limiterVars, credVars>>

\* The rateLimiter middleware, start to end (it has no await).
rateLimiter(s) ==
  /\ reqs[s].pc = "limiter"
  /\ LET ip == reqs[s].ip
         userRequests == rateLimitStore[ip]
         recent == recentRequests(userRequests, now)
     IN  IF saturated(recent)
           THEN /\ reqs' = [reqs EXCEPT ![s].pc = "done", ![s].resp = 429,
                                        ![s].at = now, ![s].seen = Len(recent)]
                /\ UNCHANGED <<rateLimitStore, admitLog>>
           ELSE /\ rateLimitStore' = recorded(rateLimitStore, ip, recent, now)
                /\ admitLog' = [admitLog EXCEPT ![ip] = Append(@, now)]
                /\ reqs' = [reqs EXCEPT ![s].pc = "handler",
                                        ![s].at = now, ![s].seen = Len(recent)]
  /\ UNCHANGED <<now, credVars>>

\* The handler of a rate-limited route up to its first await: a missing
\* prompt / reportData is answered 400, otherwise the upstream call starts.
LimitedHandler(s) ==
  /\ reqs[s].pc = "handler"
  /\ reqs[s].kind = "limited"
  /\ IF reqs[s].input
       THEN reqs' = [reqs EXCEPT ![s].pc = "fetch"]
       ELSE reqs' = [reqs EXCEPT ![s].pc = "done", ![s].resp = 400]
  /\ UNCHANGED <<now, limiterVars, credVars>>

\* The upstream call returns: its body is relayed, or its failure is caught
\* and answered 500.
LimitedFetch(s) ==
  /\ reqs[s].pc = "fetch"
  /\ \E status \in {200, 500} :
       reqs' = [reqs EXCEPT ![s].pc = "done", ![s].resp = status]
  /\ UNCHANGED <<now, limiterVars, credVars>>

\* The response has been sent; the request is over.
Release(s) ==
  /\ reqs[s].pc = "done"
  /\ reqs' = [reqs EXCEPT ![s] = Idle]
  /\ UNCHANGED <<now, limiterVars, credVars>>

\* ------------------------------------------------- credential lifecycle
\* bcrypt.hash(passcode, saltRounds): the salt and a digest of passcode and
\* salt; the plaintext is not part of it.
bcryptHash(passcode, salt) ==
  [salt |-> salt, digest |-> ((passcode * 5 + salt * 3) % 7) + 1]

\* bcrypt.compare(passcode, hashedPasscode): rehash with the stored salt.
bcryptCompare(passcode, hashedPasscode) ==
  bcryptHash(passcode, hashedPasscode.salt) = hashedPasscode

\* loginRef.set({hashedPasscode, status: 'active', createdAt}): writes the
\* whole document, whatever was stored under the key.
loginSet_nostatus(coll, caseId, hashedPasscode, t) ==
  [coll EXCEPT ![caseId] =
     [exists |-> TRUE, hashedPasscode |-> hashedPasscode,
      status |-> "-", createdAt |-> t]]

loginSet(coll, caseId, hashedPasscode, t) ==
  [coll EXCEPT ![caseId] =
     [exists |-> TRUE, hashedPasscode |-> hashedPasscode,
      status |-> "active", createdAt |-> t]]

\* loginRef.update({ status: 'used' }): changes that field of a document
\* that exists (the store rejects an update of a missing document).
loginUpdate_replace(coll, caseId) ==
  [coll EXCEPT ![caseId] = [NoDoc EXCEPT !.exists = TRUE, !.status = "used"]]

loginUpdate_toggle(coll, caseId) ==
  [coll EXCEPT ![caseId].status = IF @ = "active" THEN "used" ELSE "active"]

loginUpdate(coll, caseId) == [coll EXCEPT ![caseId].status = "used"]

\* Identifiers the store has not given to a report yet.
FreeDocIds == (1..MaxReports) \ {r.id : r \in reports}

\* The identifier the store gives the next report (an opaque fresh id).
NewDocIds == {i \in FreeDocIds : \A j \in FreeDocIds : i <= j}

\* db.collection('case_reports').add({caseNumber: caseId, ...})
reportAdd_lost(coll, id, caseId) == coll

reportAdd(coll, id, caseId) == coll \cup {[id |-> id, caseNumber |-> caseId]}

\* POST /api/create-intake-credentials up to `await loginRef.set(...)`: the
\* identifier, the passcode and its hash are drawn; nothing shared is read.
IssueStart(s) ==
  /\ reqs[s].kind = "idle"
  /\ \E caseId \in CaseIds, passcode \in Passcodes, salt \in Salts :
       reqs' = [reqs EXCEPT ![s] =
                  [Idle EXCEPT !.kind = "issue", !.pc = "set",
                               !.caseId = caseId, !.passcode = passcode,
                               !.hashed = bcryptHash(passcode, salt)]]
  /\ UNCHANGED <<now, limiterVars, credVars>>

\* The set resolves and the handler answers 200 with caseId and passcode, or
\* it rejects and the catch block answers 500.
IssueSet(s) ==
  /\ reqs[s].kind = "issue"
  /\ reqs[s].pc = "set"
  /\ \/ /\ logins' = loginSet(logins, reqs[s].caseId, reqs[s].hashed, now)
        /\ reqs' = [reqs EXCEPT ![s].pc = "done", ![s].resp = 200]
     \/ /\ logins' = logins
        /\ reqs' = [reqs EXCEPT ![s].pc = "done", ![s].resp = 500]
  /\ UNCHANGED <<now, limiterVars, reports, usedEver>>

\* POST /api/validate-intake-credentials up to `await loginRef.get()`.  The
\* route is registered without the rateLimiter middleware.
ValidateStart(s) ==
  /\ reqs[s].kind = "idle"
  /\ \E caseId \in CaseIds \cup {NoCase}, passcode \in Passcodes \cup {NoPasscode} :
       LET r == [Idle EXCEPT !.kind = "validate", !.caseId = caseId,
                             !.passcode = passcode,
                             !.afterUsed = (caseId # NoCase /\ usedEver[caseId])]
       IN  IF caseId = NoCase \/ passcode = NoPasscode
             THEN reqs' = [reqs EXCEPT ![s] = [r EXCEPT !.pc = "done", !.resp = 400]]
             ELSE reqs' = [reqs EXCEPT ![s] = [r EXCEPT !.pc = "get"]]
  /\ UNCHANGED <<now, limiterVars, credVars>>

\* What the handler does with the document it read, up to
\* `await bcrypt.compare(...)`.
validateDecide_noreturn(r, loginDoc) ==
  IF ~loginDoc.exists
    THEN [r EXCEPT !.pc = "compare", !.resp = 404]
    ELSE IF loginDoc.status # "active"
           THEN [r EXCEPT !.pc = "done", !.resp = 403, !.loginDoc = loginDoc]
           ELSE [r EXCEPT !.pc = "compare", !.loginDoc = loginDoc]

validateDecide_nostatus(r, loginDoc) ==
  IF ~loginDoc.exists
    THEN [r EXCEPT !.pc = "done", !.resp = 404]
    ELSE [r EXCEPT !.pc = "compare", !.loginDoc = loginDoc]

validateDecide(r, loginDoc) ==
  IF ~loginDoc.exists
    THEN [r EXCEPT !.pc = "done", !.resp = 404]
    ELSE IF loginDoc.status # "active"
           THEN [r EXCEPT !.pc = "done", !.resp = 403, !.loginDoc = loginDoc]
           ELSE [r EXCEPT !.pc = "compare", !.loginDoc = loginDoc]

\* The get resolves with the document as stored now, or rejects (500).
ValidateGet(s) ==
  /\ reqs[s].kind = "validate"
  /\ reqs[s].pc = "get"
  /\ \/ reqs' = [reqs EXCEPT ![s] = validateDecide(@, logins[reqs[s].caseId])]
     \/ reqs' = [reqs EXCEPT ![s].pc = "done", ![s].resp = 500]
  /\ UNCHANGED <<now, limiterVars, credVars>>

\* isMatch ? 200 : 401
validateAnswer(isMatch) == IF isMatch THEN 200 ELSE 401

\* What the validate handler writes to intake_logins once the passcode has
\* been compared: nothing (it only answers).
validateEffect_consume(coll, caseId, isMatch) ==
  IF isMatch THEN [coll EXCEPT ![caseId].status = "used"] ELSE coll

validateEffect(coll, caseId, isMatch) == coll

\* bcrypt.compare resolves.
ValidateCompare(s) ==
  /\ reqs[s].kind = "validate"
  /\ reqs[s].pc = "compare"
  /\ LET isMatch == bcryptCompare(reqs[s].passcode, reqs[s].loginDoc.hashedPasscode)
     IN  /\ reqs' = [reqs EXCEPT ![s].pc = "done", ![s].resp = validateAnswer(isMatch)]
         /\ logins' = validateEffect(logins, reqs[s].caseId, isMatch)
  /\ UNCHANGED <<now, limiterVars, reports, usedEver>>

\* !clientName || !clientEmail || !reportContent || !caseId
finalizeInvalid_noemail(body, caseId) ==
  \/ "clientName" \notin body
  \/ "reportContent" \notin body
  \/ caseId = NoCase

finalizeInvalid(body, caseId) ==
  \/ "clientName" \notin body
  \/ "clientEmail" \notin body
  \/ "reportContent" \notin body
  \/ caseId = NoCase

\* POST /api/save-report up to `await db.collection('case_reports').add(...)`.
FinalizeStart(s) ==
  /\ reqs[s].kind = "idle"
  /\ \E caseId \in CaseIds \cup {NoCase}, body \in Bodies :
       LET r == [Idle EXCEPT !.kind = "finalize", !.caseId = caseId, !.body = body,
                             !.afterUsed = (caseId # NoCase /\ usedEver[caseId])]
       IN  IF finalizeInvalid(body, caseId)
             THEN reqs' = [reqs EXCEPT ![s] = [r EXCEPT !.pc = "done", !.resp = 400]]
             ELSE reqs' = [reqs EXCEPT ![s] = [r EXCEPT !.pc = "add"]]
  /\ UNCHANGED <<now, limiterVars, credVars>>

\* The add resolves with the new document's reference and the handler starts
\* `await loginRef.update({ status: 'used' })`, or the add rejects (500).
\* Of the report's fields only caseNumber is kept: the others are the
\* client's content, copied from the body and read by no handler.
FinalizeAdd(s) ==
  /\ reqs[s].kind = "finalize"
  /\ reqs[s].pc = "add"
  /\ \/ \E id \in NewDocIds :
          /\ reports' = reportAdd(reports, id, reqs[s].caseId)
          /\ reqs' = [reqs EXCEPT ![s].pc = "update", ![s].docId = id]
     \/ /\ reports' = reports
        /\ reqs' = [reqs EXCEPT ![s].pc = "done", ![s].resp = 500]
  /\ UNCHANGED <<now, limiterVars, logins, usedEver>>

\* The update resolves and the handler answers 200 with the report's id; or
\* it rejects, because no document is stored under caseId or because the
\* store failed, and the catch block answers 500.
FinalizeUpdate(s) ==
  /\ reqs[s].kind = "finalize"
  /\ reqs[s].pc = "update"
  /\ \/ /\ logins[reqs[s].caseId].exists
        /\ logins' = loginUpdate(logins, reqs[s].caseId)
        /\ usedEver' = [usedEver EXCEPT ![reqs[s].caseId] = TRUE]
        /\ reqs' = [reqs EXCEPT ![s].pc = "done", ![s].resp = 200]
     \/ /\ UNCHANGED <<logins, usedEver>>
        /\ reqs' = [reqs EXCEPT ![s].pc = "done", ![s].resp = 500]
  /\ UNCHANGED <<now, limiterVars, reports>>

\* GET /api/reports up to `await ...orderBy('createdAt', 'desc').get()`.
ListStart(s) ==
  /\ reqs[s].kind = "idle"
  /\ reqs' = [reqs EXCEPT ![s] = [Idle EXCEPT !.kind = "list", !.pc = "query"]]
  /\ UNCHANGED <<now, limiterVars, credVars>>

\* The query resolves and the reports are sent with 200, or it rejects and
\* the catch block answers 500.
ListGet(s) ==
  /\ reqs[s].kind = "list"
  /\ reqs[s].pc = "query"
  /\ \E status \in {200, 500} :
       reqs' = [reqs EXCEPT ![s].pc = "done", ![s].resp = status]
  /\ UNCHANGED <<now, limiterVars, credVars>>

\* DELETE /api/reports/:id up to `await ...doc(id).delete()`.  The route
\* matches only with an id, so `!id` is never true.
DeleteStart(s) ==
  /\ reqs[s].kind = "idle"
  /\ \E id \in 1..MaxReports :
       reqs' = [reqs EXCEPT ![s] =
                  [Idle EXCEPT !.kind = "delete", !.pc = "delete", !.docId = id]]
  /\ UNCHANGED <<now, limiterVars, credVars>>

\* The delete resolves, whether or not a document had that id (200), or it
\* rejects (500).
DeleteDone(s) ==
  /\ reqs[s].kind = "delete"
  /\ reqs[s].pc = "delete"
  /\ \/ /\ reports' = {r \in reports : r.id # reqs[s].docId}
        /\ reqs' = [reqs EXCEPT ![s].pc = "done", ![s].resp = 200]
     \/ /\ reports' = reports
        /\ reqs' = [reqs EXCEPT ![s].pc = "done", ![s].resp = 500]
  /\ UNCHANGED <<now, limiterVars, logins, usedEver>>

Init ==
  /\ now = 0
  /\ rateLimitStore = [i \in IPs |-> <<>>]
  /\ logins = [c \in CaseIds |-> NoDoc]
  /\ reports = {}
  /\ reqs = [s \in Slots |-> Idle]
  /\ admitLog = [i \in IPs |-> <<>>]
  /\ usedEver = [c \in CaseIds |-> FALSE]

NextLimiter ==
  \/ Tick
  \/ \E s \in Slots : Arrive(s)
  \/ \E s \in Slots : rateLimiter(s)
  \/ \E s \in Slots : LimitedHandler(s)
  \/ \E s \in Slots : LimitedFetch(s)
  \/ \E s \in Slots : Release(s)

SpecLimiter == Init /\ [][NextLimiter]_vars

\* The credential handlers share no state with the limiter (none of their
\* routes is registered with it) and read the clock only to stamp createdAt,
\* so they are explored on their own, at one instant of the clock.
Next ==
  \/ \E s \in Slots : IssueStart(s)
  \/ \E s \in Slots : IssueSet(s)
  \/ \E s \in Slots : ValidateStart(s)
  \/ \E s \in Slots : ValidateGet(s)
  \/ \E s \in Slots : ValidateCompare(s)
  \/ \E s \in Slots : FinalizeStart(s)
  \/ \E s \in Slots : FinalizeAdd(s)
  \/ \E s \in Slots : FinalizeUpdate(s)
  \/ \E s \in Slots : Release(s)

Spec == Init /\ [][Next]_vars

\* Two finalize calls on a store that holds issued, active credentials and
\* that nothing else writes to: every interleaving of their store operations.
ActiveDocs ==
  {[exists |-> TRUE, hashedPasscode |-> bcryptHash(p, salt),
    status |-> "active", createdAt |-> 0] : p \in Passcodes, salt \in Salts}

InitRace ==
  /\ now = 0
  /\ rateLimitStore = [i \in IPs |-> <<>>]
  /\ logins \in [CaseIds -> {NoDoc} \cup ActiveDocs]
  /\ reports = {}
  /\ reqs = [s \in Slots |-> Idle]
  /\ admitLog = [i \in IPs |-> <<>>]
  /\ usedEver = [c \in CaseIds |-> FALSE]

NextRace ==
  \/ \E s \in Slots : FinalizeStart(s)
  \/ \E s \in Slots : FinalizeAdd(s)
  \/ \E s \in Slots : FinalizeUpdate(s)

SpecRace == InitRace /\ [][NextRace]_vars

\* Callers that never call validate: credentials are issued and reports
\* finalized, nothing else.
NextDirect ==
  \/ \E s \in Slots : IssueStart(s)
  \/ \E s \in Slots : IssueSet(s)
  \/ \E s \in Slots : FinalizeStart(s)
  \/ \E s \in Slots : FinalizeAdd(s)
  \/ \E s \in Slots : FinalizeUpdate(s)
  \/ \E s \in Slots : Release(s)

SpecDirect == Init /\ [][NextDirect]_vars

\* Two requests to the credential and report handlers, of any kinds, on a
\* store as earlier requests can have left it, each followed to its answer.
UsedDocs == {[d EXCEPT !.status = "used"] : d \in ActiveDocs}

InitServe ==
  /\ now = 0
  /\ rateLimitStore = [i \in IPs |-> <<>>]
  /\ logins \in [CaseIds -> {NoDoc} \cup ActiveDocs \cup UsedDocs]
  /\ reports \in {{}} \cup {{[id |-> 1, caseNumber |-> c]} : c \in CaseIds}
  /\ reqs = [s \in Slots |-> Idle]
  /\ admitLog = [i \in IPs |-> <<>>]
  /\ usedEver = [c \in CaseIds |-> logins[c].status = "used"]

\* The continuation of the request in slot s after the store (or bcrypt)
\* call it awaits has settled.
Settle(s) ==
  \/ IssueSet(s)
  \/ ValidateGet(s)
  \/ ValidateCompare(s)
  \/ FinalizeAdd(s)
  \/ FinalizeUpdate(s)
  \/ ListGet(s)
  \/ DeleteDone(s)

NextServe ==
  \/ \E s \in Slots : IssueStart(s)
  \/ \E s \in Slots : ValidateStart(s)
  \/ \E s \in Slots : FinalizeStart(s)
  \/ \E s \in Slots : ListStart(s)
  \/ \E s \in Slots : DeleteStart(s)
  \/ \E s \in Slots : Settle(s)

\* Every awaited call settles, resolved or rejected, and the event loop then
\* runs the handler's continuation.
SpecServe ==
  InitServe /\ [][NextServe]_vars /\ \A s \in Slots : WF_vars(Settle(s))

\* ------------------------------------------------------------ claims
\* A request that has been through the limiter and was let through.
Admitted(s) ==
  /\ reqs[s].kind = "limited"
  /\ reqs[s].pc \in {"handler", "fetch", "done"}
  /\ reqs[s].resp # 429

\* A request the limiter answered 429.
Rejected(s) ==
  /\ reqs[s].kind = "limited"
  /\ reqs[s].pc = "done"
  /\ reqs[s].resp = 429

\* C3: no window of length RATE_LIMIT_WINDOW_MS holds more than
\* MAX_REQUESTS_PER_WINDOW admitted requests of one identity, and a request is
\* rejected only when the window trailing it already holds that many: the
\* first `capacity` requests of a window are admitted, the next is rejected.
C3_WindowCap ==
  /\ \A i \in IPs : Len(InWindow(admitLog[i], now)) <= MAX_REQUESTS_PER_WINDOW
  /\ \A s \in Slots :
        (Rejected(s) /\ reqs[s].at = now) =>
          Len(InWindow(admitLog[reqs[s].ip], now)) = MAX_REQUESTS_PER_WINDOW
  /\ \A s \in Slots :
        (Admitted(s) /\ reqs[s].at = now) =>
          \E k \in 1..Len(admitLog[reqs[s].ip]) :
            /\ admitLog[reqs[s].ip][k] = now
            /\ k <= MAX_REQUESTS_PER_WINDOW

\* A window is full and the request after it has just been answered 429.
C3_Witness ==
  \E s \in Slots :
    /\ Rejected(s)
    /\ reqs[s].at = now
    /\ Len(InWindow(admitLog[reqs[s].ip], now)) = MAX_REQUESTS_PER_WINDOW
    /\ \E k \in 1..Len(admitLog[reqs[s].ip]) : admitLog[reqs[s].ip][k] < now

\* C7: check-and-record is atomic per identity: two requests of one identity
\* handled at the same instant never both see the same count, so when one
\* slot remains at most one of them is admitted.
C7_NoStaleCount ==
  \A s1, s2 \in Slots :
    (/\ s1 # s2
     /\ Admitted(s1) /\ Admitted(s2)
     /\ reqs[s1].ip = reqs[s2].ip
     /\ reqs[s1].at = reqs[s2].at)
    => reqs[s1].seen # reqs[s2].seen

\* Two requests of one identity at one instant with one slot left: one was
\* admitted into the last slot, the other answered 429.
C7_Witness ==
  \E s1, s2 \in Slots :
    /\ Admitted(s1) /\ Rejected(s2)
    /\ reqs[s1].ip = reqs[s2].ip
    /\ reqs[s1].at = reqs[s2].at
    /\ reqs[s1].seen = MAX_REQUESTS_PER_WINDOW - 1
    /\ reqs[s2].seen = MAX_REQUESTS_PER_WINDOW

\* C8: a request is admitted as soon as fewer than `capacity` admitted
\* requests of its identity lie within the window trailing it; in particular
\* once every recorded timestamp is a full window old, the identity is
\* admitted again.
C8_Step(s) ==
  LET ip == reqs[s].ip
      expired == \A k \in 1..Len(rateLimitStore[ip]) :
                   now - rateLimitStore[ip][k] >= RATE_LIMIT_WINDOW_MS
      room == Len(InWindow(admitLog[ip], now)) < MAX_REQUESTS_PER_WINDOW
  IN  (reqs[s].pc = "limiter" /\ reqs'[s].pc # "limiter" /\ (expired \/ room))
        => /\ reqs'[s].pc = "handler"
           /\ reqs'[s].resp # 429
           /\ Len(rateLimitStore'[ip]) > 0
           /\ rateLimitStore'[ip][Len(rateLimitStore'[ip])] = now

C8_ReadmitAfterWindow == [][\A s \in Slots : C8_Step(s)]_vars

\* An identity was answered 429 and, a window after, is admitted with every
\* earlier timestamp gone.
C8_Witness ==
  \E s1, s2 \in Slots :
    /\ Rejected(s1) /\ Admitted(s2)
    /\ reqs[s1].ip = reqs[s2].ip
    /\ reqs[s2].at >= reqs[s1].at + RATE_LIMIT_WINDOW_MS
    /\ reqs[s2].seen = 0
    /\ rateLimitStore[reqs[s2].ip] = <<reqs[s2].at>>

\* A validate request that has been answered.
ValidateDone(s) == reqs[s].kind = "validate" /\ reqs[s].pc = "done"

\* A finalize request that has been answered.
FinalizeDone(s) == reqs[s].kind = "finalize" /\ reqs[s].pc = "done"

\* The report a finalize request has persisted.
ReportOf(r) == [id |-> r.docId, caseNumber |-> r.caseId]

\* C1: once a finalize has set a caseId's status to used, a validate call
\* made later with that caseId and the passcode of the stored record is
\* answered 403.
C1_UsedStaysForbidden ==
  \A s \in Slots :
    (/\ ValidateDone(s)
     /\ reqs[s].afterUsed
     /\ reqs[s].loginDoc.exists
     /\ bcryptCompare(reqs[s].passcode, reqs[s].loginDoc.hashedPasscode))
    => reqs[s].resp = 403

\* C2: the status stored under a caseId never goes from used back to active.
C2_UsedIsMonotonic ==
  [][\A c \in CaseIds : logins[c].status = "used" => logins'[c].status = "used"]_vars

\* C4: validate is gated by the limiter: a validate call reaches the
\* credential lookup only after the limiter has counted fewer than
\* MAX_REQUESTS_PER_WINDOW recent requests of its identity.
C4_ValidateGated ==
  \A s \in Slots :
    (/\ reqs[s].kind = "validate"
     /\ \/ reqs[s].pc \in {"get", "compare"}
        \/ reqs[s].pc = "done" /\ reqs[s].resp \notin {400, 429})
    => (reqs[s].seen >= 0 /\ reqs[s].seen < MAX_REQUESTS_PER_WINDOW)

\* C5: with both fields present and the lookup answered, validate decides on
\* the stored record alone, in this order: no record 404; status not active
\* 403, whatever the passcode; passcode not matching the stored hash 401;
\* otherwise 200.
C5_Step(s) ==
  LET r == reqs[s]
      q == reqs'[s]
      d == logins[r.caseId]
  IN  /\ (r.kind = "validate" /\ r.pc = "get" /\ q.pc # "get" /\ q.resp # 500) =>
            \/ ~d.exists /\ q.pc = "done" /\ q.resp = 404
            \/ d.exists /\ d.status # "active" /\ q.pc = "done" /\ q.resp = 403
            \/ d.exists /\ d.status = "active" /\ q.pc = "compare" /\ q.loginDoc = d
      /\ (r.kind = "validate" /\ r.pc = "compare" /\ q.pc = "done") =>
            q.resp = IF bcryptCompare(r.passcode, r.loginDoc.hashedPasscode)
                       THEN 200 ELSE 401

C5_ValidateOrder == [][\A s \in Slots : C5_Step(s)]_vars

\* A used credential presented with a wrong passcode was answered 403 and an
\* active one presented with a wrong passcode 401.
C5_Witness ==
  \E s1, s2 \in Slots :
    /\ ValidateDone(s1) /\ reqs[s1].resp = 403
    /\ ~bcryptCompare(reqs[s1].passcode, reqs[s1].loginDoc.hashedPasscode)
    /\ ValidateDone(s2) /\ reqs[s2].resp = 401
    /\ reqs[s2].loginDoc.status = "active"

\* C6: no step of a validate call changes a credential record or a report,
\* and an active credential presented with its passcode is answered 200
\* every time.
C6_Step(s) ==
  LET r == reqs[s]
      q == reqs'[s]
  IN  /\ (q # r /\ (r.kind = "validate" \/ q.kind = "validate")) =>
            UNCHANGED <<logins, reports>>
      /\ (/\ r.kind = "validate" /\ r.pc = "get" /\ q.pc # "get" /\ q.resp # 500
          /\ logins[r.caseId].exists /\ logins[r.caseId].status = "active"
          /\ bcryptCompare(r.passcode, logins[r.caseId].hashedPasscode)) =>
            (q.pc = "compare" /\ q.loginDoc = logins'[r.caseId])
      /\ (/\ r.kind = "validate" /\ r.pc = "compare" /\ q.pc = "done"
          /\ bcryptCompare(r.passcode, r.loginDoc.hashedPasscode)) =>
            q.resp = 200

C6_ValidateFrame == [][\A s \in Slots : C6_Step(s)]_vars

\* One active credential has been validated twice with its passcode, both
\* calls were answered 200 and the record is as it was read.
C6_Witness ==
  \E s1, s2 \in Slots :
    /\ s1 # s2
    /\ ValidateDone(s1) /\ reqs[s1].resp = 200
    /\ ValidateDone(s2) /\ reqs[s2].resp = 200
    /\ reqs[s1].caseId = reqs[s2].caseId
    /\ logins[reqs[s1].caseId] = reqs[s1].loginDoc
    /\ logins[reqs[s1].caseId].status = "active"

\* C9: finalize persists the report before it touches the credential, and
\* when the status update then fails the report stays persisted, the
\* credential record is as it was and the caller is answered 500.
C9_Step(s) ==
  LET r == reqs[s]
      q == reqs'[s]
  IN  /\ (r.kind = "finalize" /\ r.pc = "add" /\ q.pc = "update") =>
            (ReportOf(q) \in reports' /\ UNCHANGED logins)
      /\ (r.kind = "finalize" /\ r.pc = "update" /\ q.pc = "done" /\ q.resp # 200) =>
            (q.resp = 500 /\ ReportOf(r) \in reports' /\ UNCHANGED logins)

C9_NotTransactional == [][\A s \in Slots : C9_Step(s)]_vars

\* A finalize for an issued, active credential was answered 500 after its
\* report was persisted; the credential is still active.
C9_Witness ==
  \E s \in Slots :
    /\ FinalizeDone(s) /\ reqs[s].resp = 500
    /\ reqs[s].docId # 0
    /\ ReportOf(reqs[s]) \in reports
    /\ logins[reqs[s].caseId].exists
    /\ logins[reqs[s].caseId].status = "active"
    /\ ~usedEver[reqs[s].caseId]

\* C10: a finalize naming a caseId with no stored credential creates no
\* record under it and is answered NotFound (404).
C10_UnknownCaseNotFound ==
  \A s \in Slots :
    (/\ FinalizeDone(s)
     /\ reqs[s].docId # 0
     /\ ~logins[reqs[s].caseId].exists)
    => reqs[s].resp = 404

\* C11: two concurrent finalize calls for one issued, active caseId: in
\* every interleaving, a call the store does not fail is answered 200, and
\* once one of them has been, the status is used; the status is never
\* anything but active or used.
C11_BenignRace ==
  \A s1, s2 \in Slots :
    (/\ s1 # s2
     /\ FinalizeDone(s1) /\ FinalizeDone(s2)
     /\ reqs[s1].caseId = reqs[s2].caseId
     /\ reqs[s1].resp # 400 /\ reqs[s2].resp # 400
     /\ logins[reqs[s1].caseId].exists)
    => /\ reqs[s1].resp \in {200, 500} /\ reqs[s2].resp \in {200, 500}
       /\ logins[reqs[s1].caseId].status =
            IF reqs[s1].resp = 200 \/ reqs[s2].resp = 200 THEN "used" ELSE "active"

\* Both calls of one caseId were answered 200, each persisted a report of its
\* own, and the status is used.
C11_Witness ==
  \E s1, s2 \in Slots :
    /\ s1 # s2
    /\ FinalizeDone(s1) /\ FinalizeDone(s2)
    /\ reqs[s1].caseId = reqs[s2].caseId
    /\ reqs[s1].resp = 200 /\ reqs[s2].resp = 200
    /\ {ReportOf(reqs[s1]), ReportOf(reqs[s2])} = reports
    /\ reqs[s1].docId # reqs[s2].docId
    /\ logins[reqs[s1].caseId].status = "used"

\* C12: once a finalize has set a caseId's status to used, no finalize call
\* made later with that caseId persists a report or is answered 200.
C12_SingleUseFinalize ==
  \A s \in Slots :
    (reqs[s].kind = "finalize" /\ reqs[s].afterUsed)
    => (reqs[s].docId = 0 /\ reqs[s].resp # 200)

\* C13: a finalize call without caseId, clientName, clientEmail or
\* reportContent is answered 400 at once and nothing is stored or changed for
\* it; a call that lacks only clientPhone goes on to persist its report.
C13_Step(s) ==
  LET r == reqs[s]
      q == reqs'[s]
      missing == \/ q.caseId = NoCase
                 \/ ~({"clientName", "clientEmail", "reportContent"} \subseteq q.body)
  IN  /\ (r.kind = "idle" /\ q.kind = "finalize" /\ missing) =>
            (q.pc = "done" /\ q.resp = 400 /\ q.docId = 0 /\ UNCHANGED <<logins, reports>>)
      /\ (r.kind = "idle" /\ q.kind = "finalize" /\ ~missing) => q.pc = "add"
      /\ (r.kind = "finalize" /\ r.pc = "done" /\ r.resp = 400 /\ q # r) =>
            (q = Idle /\ UNCHANGED <<logins, reports>>)

C13_MissingFields == [][\A s \in Slots : C13_Step(s)]_vars

\* One call without clientEmail was answered 400 and left no report; another
\* without clientPhone has persisted its report.
C13_Witness ==
  \E s1, s2 \in Slots :
    /\ FinalizeDone(s1) /\ reqs[s1].resp = 400
    /\ reqs[s1].caseId # NoCase /\ reqs[s1].body = ReportFields \ {"clientEmail"}
    /\ reqs[s2].kind = "finalize" /\ reqs[s2].pc = "update"
    /\ reqs[s2].body = ReportFields \ {"clientPhone"}
    /\ reports = {ReportOf(reqs[s2])}

\* C14: a request the limiter rejects is not recorded: the store is left as
\* it was; an admitted request stores the timestamps still in the window
\* followed by the current time, once.
C14_Step(s) ==
  LET r == reqs[s]
      q == reqs'[s]
      kept == SelectSeq(rateLimitStore[r.ip],
                        LAMBDA t : now - t < RATE_LIMIT_WINDOW_MS)
  IN  (r.pc = "limiter" /\ q.pc # "limiter") =>
        IF q.resp = 429
          THEN rateLimitStore' = rateLimitStore
          ELSE rateLimitStore' = [rateLimitStore EXCEPT ![r.ip] = Append(kept, now)]

C14_RejectedNotRecorded == [][\A s \in Slots : C14_Step(s)]_vars

\* A request was rejected at an instant later than every recorded timestamp
\* of its identity, and its own time is not in the store.
C14_Witness ==
  \E s \in Slots :
    /\ Rejected(s)
    /\ Len(rateLimitStore[reqs[s].ip]) = MAX_REQUESTS_PER_WINDOW
    /\ \A k \in 1..Len(rateLimitStore[reqs[s].ip]) :
         rateLimitStore[reqs[s].ip][k] < reqs[s].at

\* An issue request that has been answered.
IssueDone(s) == reqs[s].kind = "issue" /\ reqs[s].pc = "done"

\* C15 as claimed: after an issue whose write failed (500), no credential
\* record exists under the caseId it generated.
C15_NoRecordOnFailure ==
  \A s \in Slots :
    (IssueDone(s) /\ reqs[s].resp = 500) => ~logins[reqs[s].caseId].exists

\* C15 as amended: an issue whose write fails is answered 500 and leaves the
\* store as it was (a record under the generated caseId, if any, is an
\* earlier issue's); an issue is answered 200 only in the step that stores
\* {hash of its passcode, status active} under its caseId.
C15_Step(s) ==
  LET r == reqs[s]
      q == reqs'[s]
  IN  (r.kind = "issue" /\ r.pc = "set" /\ q.pc = "done") =>
        /\ q.resp \in {200, 500}
        /\ q.resp = 500 => logins' = logins
        /\ q.resp = 200 =>
             /\ logins'[r.caseId].exists
             /\ logins'[r.caseId].status = "active"
             /\ logins'[r.caseId].hashedPasscode = r.hashed
             /\ bcryptCompare(r.passcode, logins'[r.caseId].hashedPasscode)
             /\ \A c \in CaseIds \ {r.caseId} : logins'[c] = logins[c]

C15_IssueAllOrNothing == [][\A s \in Slots : C15_Step(s)]_vars

\* One issue failed and left no record under its caseId; another was
\* answered 200 and its record is stored, active.
C15_Witness ==
  \E s1, s2 \in Slots :
    /\ IssueDone(s1) /\ reqs[s1].resp = 500
    /\ ~logins[reqs[s1].caseId].exists
    /\ IssueDone(s2) /\ reqs[s2].resp = 200
    /\ logins[reqs[s2].caseId].hashedPasscode = reqs[s2].hashed
    /\ logins[reqs[s2].caseId].status = "active"

\* C16: the deactivation step sets the status to used and changes nothing
\* else; on a record that is already used it changes nothing at all.
C16_Step(s) ==
  LET r == reqs[s]
      q == reqs'[s]
      d == logins[r.caseId]
  IN  (r.kind = "finalize" /\ r.pc = "update" /\ q.pc = "done" /\ q.resp = 200) =>
        /\ logins'[r.caseId].status = "used"
        /\ logins'[r.caseId].hashedPasscode = d.hashedPasscode
        /\ logins'[r.caseId].createdAt = d.createdAt
        /\ logins'[r.caseId].exists = d.exists
        /\ \A c \in CaseIds \ {r.caseId} : logins'[c] = logins[c]
        /\ d.status = "used" => logins' = logins

C16_DeactivateIdempotent == [][\A s \in Slots : C16_Step(s)]_vars

\* A finalize that started on a used credential has run its deactivation:
\* the record is used and still carries its hash.
C16_Witness ==
  \E s \in Slots :
    /\ FinalizeDone(s) /\ reqs[s].afterUsed /\ reqs[s].resp = 200
    /\ logins[reqs[s].caseId].status = "used"
    /\ logins[reqs[s].caseId].hashedPasscode # NoHash

\* C17: a credential becomes used only after a validate of it has been
\* answered 200: where no validate call is ever made, no finalize sets a
\* status to used.
C17_UsedOnlyAfterValidate ==
  \A c \in CaseIds : ~usedEver[c] /\ logins[c].status # "used"

\* C18: the sequence stored for an identity never has more than
\* MAX_REQUESTS_PER_WINDOW entries; right after a check for an identity,
\* admitted or rejected, its sequence holds only timestamps younger than the
\* window; and a stored sequence changes only in a check for its identity.
C18_Step ==
  /\ \A i \in IPs : Len(rateLimitStore[i]) <= MAX_REQUESTS_PER_WINDOW
  /\ \A i \in IPs : Len(rateLimitStore'[i]) <= MAX_REQUESTS_PER_WINDOW
  /\ \A s \in Slots :
       (reqs[s].pc = "limiter" /\ reqs'[s].pc # "limiter") =>
         \A k \in 1..Len(rateLimitStore'[reqs[s].ip]) :
           now' - rateLimitStore'[reqs[s].ip][k] < RATE_LIMIT_WINDOW_MS
  /\ \A i \in IPs :
       rateLimitStore'[i] # rateLimitStore[i] =>
         \E s \in Slots :
           reqs[s].pc = "limiter" /\ reqs'[s].pc # "limiter" /\ reqs[s].ip = i

C18_LimiterStore == [][C18_Step]_vars

\* A check has just pruned an identity's sequence down to the current time,
\* while another identity's sequence still holds a timestamp a window old.
C18_Witness ==
  \E s \in Slots : \E j \in IPs :
    /\ Admitted(s) /\ reqs[s].at = now /\ reqs[s].seen = 0
    /\ rateLimitStore[reqs[s].ip] = <<now>>
    /\ now >= RATE_LIMIT_WINDOW_MS
    /\ j # reqs[s].ip
    /\ Len(rateLimitStore[j]) = MAX_REQUESTS_PER_WINDOW
    /\ now - rateLimitStore[j][1] >= RATE_LIMIT_WINDOW_MS

\* C20: a check for one identity leaves every other identity's stored
\* sequence as it was, and a request is rejected only on the admissions of
\* its own identity.
C20_Step(s) ==
  LET r == reqs[s]
      q == reqs'[s]
  IN  (r.pc = "limiter" /\ q.pc # "limiter") =>
        /\ \A j \in IPs \ {r.ip} : rateLimitStore'[j] = rateLimitStore[j]
        /\ q.resp = 429 =>
             Len(InWindow(admitLog[r.ip], now)) >= MAX_REQUESTS_PER_WINDOW

C20_IdentitiesIndependent == [][\A s \in Slots : C20_Step(s)]_vars

\* One identity has just been rejected and, at the same instant, another is
\* admitted as the first of its window.
C20_Witness ==
  \E s1, s2 \in Slots :
    /\ Rejected(s1) /\ Admitted(s2)
    /\ reqs[s1].ip # reqs[s2].ip
    /\ reqs[s1].at = reqs[s2].at
    /\ reqs[s2].seen = 0
    /\ Len(rateLimitStore[reqs[s1].ip]) = MAX_REQUESTS_PER_WINDOW

\* The handlers of the credential and report routes.
HandlerKinds == {"issue", "validate", "finalize", "list", "delete"}

\* C19: every request to a credential or report handler is answered exactly
\* once: its answer is set in the step that ends the handler, a failed store
\* call included (500), nothing is sent after it, and every request is
\* answered eventually.
C19_Step(s) ==
  LET r == reqs[s]
      q == reqs'[s]
  IN  /\ (r.resp # 0 /\ q # r) => q = Idle
      /\ (q.kind \in HandlerKinds) => ((q.pc = "done") <=> (q.resp # 0))
      /\ (q.kind \in HandlerKinds /\ q.pc = "done") =>
            q.resp \in {200, 400, 401, 403, 404, 500}

C19_ExactlyOneResponse ==
  /\ [][\A s \in Slots : C19_Step(s)]_vars
  /\ \A s \in Slots :
       (reqs[s].kind \in HandlerKinds) ~> (reqs[s].pc = "done")

\* A delete whose store call failed was answered 500 while a list request,
\* served beside it, was answered 200.
C19_Witness ==
  \E s1, s2 \in Slots :
    /\ reqs[s1].kind = "delete" /\ reqs[s1].pc = "done" /\ reqs[s1].resp = 500
    /\ reqs[s2].kind = "list" /\ reqs[s2].pc = "done" /\ reqs[s2].resp = 200

====
